---- MODULE Spec2Model ----
(***************************************************************************)
(* The two breadth-first frontier crawlers of the repository:              *)
(*   scripts/bronze_crawl_web.py   (variant "web":  URLs, robots gate)     *)
(*   scripts/bronze_crawl_wiki.py  (variant "wiki": titles, error ledger)  *)
(* A behaviour is a sequence of runs of one crawler over the same ledger   *)
(* files (done log, error log) and artifact directory.  A run may crash at *)
(* any step; the files survive, the in-memory state does not.              *)
(*                                                                         *)
(* Strings are sequences of one-token strings, so that strip, split,       *)
(* lower-casing, substring tests and file-stem encodings are computed.     *)
(***************************************************************************)
EXTENDS Integers, Sequences, FiniteSets, TLC

VARIABLES
    variant,     \* "web" | "wiki": which script the runs execute
    seeds,       \* run() argument (web: --seeds; wiki: the TOPICS constant)
    max_depth,   \* run() argument
    max_pages,   \* run() argument
    pc,          \* position of the process: "idle" (no process), "ended" (run() returned),
                 \* "raised" (run() ended by an exception), or a step of run()
    doneFile,    \* DONE_FILE: sequence of lines
    errFile,     \* ERROR_FILE: sequence of lines
    artifacts,   \* the output directory: set of [stem, id, complete] files
    manifest,    \* wiki manifest.json "items" (<<>> before the first write)
    queue,       \* run(): deque of (id, depth) (+ the path of ancestors, an observation)
    visited,     \* run(): visited set
    done,        \* run(): done set loaded at startup
    results,     \* run(): web: success counter; wiki: list of titles
    cur,         \* run(): the popped (id, depth) being processed, or NoCur
    rp_cache,    \* web run(): robots cache, robots_url -> None | parsed ruleset
    gate,        \* web run(): (allowed, reason) returned by allowed_by_robots
    hist,        \* observations of the current run (not program state)
    taken        \* work so far, over all runs: identities taken from the queue,
                 \* plus one for every run after the first

\* the configuration every run of a behaviour is invoked with
config == <<variant, seeds, max_depth, max_pages>>

files == <<doneFile, errFile, artifacts, manifest>>

memory == <<queue, visited, done, results, cur, rp_cache, gate>>

vars == <<config, pc, files, memory, hist, taken>>

----------------------------------------------------------------------------
(* Bounds of the model *)

MaxDepthBound == 2    \* the largest max_depth
MaxPagesBound == 4    \* the largest max_pages
MaxTaken == 4         \* work per behaviour: identities taken plus runs after the first
MaxLedger == 2        \* ledger replay: appends made to each log
MaxSaves == 2         \* file stems: artifacts saved into one directory

----------------------------------------------------------------------------
(* Strings *)

TAB == "\t"
SP == " "
NL == "\n"
Whitespace == {SP, TAB}

RECURSIVE LStrip(_)
LStrip(s) ==
    IF s # <<>> /\ Head(s) \in Whitespace THEN LStrip(Tail(s)) ELSE s

RECURSIVE RStrip(_)
RStrip(s) ==
    IF s # <<>> /\ s[Len(s)] \in Whitespace
    THEN RStrip(SubSeq(s, 1, Len(s) - 1))
    ELSE s

\* str.strip()
Strip(s) == RStrip(LStrip(s))

\* str.split("\t")
RECURSIVE SplitTab(_)
SplitTab(s) ==
    IF \E i \in 1..Len(s) : s[i] = TAB
    THEN LET i == CHOOSE k \in 1..Len(s) :
                      s[k] = TAB /\ \A m \in 1..(k - 1) : s[m] # TAB
         IN  <<SubSeq(s, 1, i - 1)>> \o SplitTab(SubSeq(s, i + 1, Len(s)))
    ELSE <<s>>

LowerChar(c) ==
    CASE c = "F" -> "f"
      [] c = "C" -> "c"
      [] OTHER -> c

\* str.lower()
Lower(s) == [i \in 1..Len(s) |-> LowerChar(s[i])]

\* k in s
Contains(s, k) ==
    \E i \in 1..(Len(s) - Len(k) + 1) : SubSeq(s, i, i + Len(k) - 1) = k

\* keywords common to FOOTBALL_URL_KEYWORDS and FOOTBALL_KEYWORDS
FOOTBALL_KEYWORDS == {<<"f", "c">>, <<"c", "u", "p">>, <<"a", "f", "f">>}

\* is_footballish_url / is_footballish
is_footballish(s) == \E k \in FOOTBALL_KEYWORDS : Contains(Lower(s), k)

----------------------------------------------------------------------------
(* Identities.  A URL is its origin token (scheme+host) followed by the    *)
(* tokens of its path; a wiki title is a token sequence.                   *)

A == <<"h", "f", "c">>
B == <<"g", "f", "c">>
C1 == <<"h", "c", "u", "p">>
C2 == <<"h", "a", "f", "f">>
X == <<"h", "x">>
W == <<"h", "f", "c", SP>>
C1Frag == <<"h", "c", "u", "p", "#", "s">>
Mail == <<"mailto", "x">>

HttpOrigins == {"h", "g"}

\* the max_depth a run may be given (--max-depth)
DepthCaps == {0, 1, MaxDepthBound}

\* the max_pages a run may be given (--max-pages)
PageCaps == {0, 2, MaxPagesBound}

\* the seed lists a web run may be given (--seeds)
SeedLists == {<<A, B>>, <<W, A>>}

\* wiki: the TOPICS constant
TOPICS == <<A, B>>

\* hrefs of a fetched page (web) / titles returned by fetch_links (wiki)
WebLinkLists == {<<C1, C2>>, <<A, Mail, X, C1Frag, C1>>}
WikiLinkLists == {<<C1, C2>>, <<A, X, C1, C1>>}

----------------------------------------------------------------------------
(* Status codes *)

RETRYABLE_STATUS_WEB == {403, 408, 429, 500, 502, 503, 504}
RETRYABLE_STATUS == {403, 408, 429, 500, 502, 503, 504, 520, 522}
PERMANENT_STATUS == {400, 401, 404, 410}

\* the decimal text of a status code, as an f-string writes it
StatusStr(n) ==
    CASE n = 0 -> "0"
      [] n = 418 -> "418"
      [] n = 200 -> "200"
      [] n = 403 -> "403"
      [] n = 404 -> "404"
      [] n = 429 -> "429"
      [] n = 500 -> "500"
      [] n = 503 -> "503"
      [] OTHER -> "nnn"

----------------------------------------------------------------------------
(* Ledger files *)

\* run(): done = set(line.strip() for line in f if line.strip())
LoadDone(f) == {Strip(f[i]) : i \in 1..Len(f)} \ {<<>>}

\* a loader that ignores the retryable field: the first field of every line
load_permanent_errors_all(f) ==
    {SplitTab(Strip(f[i]))[1] : i \in {k \in 1..Len(f) : Strip(f[k]) # <<>>}}

\* load_permanent_errors(): the first field of every line whose third
\* field is "0"
load_permanent_errors(f) ==
    LET lines == {Strip(f[i]) : i \in 1..Len(f)} \ {<<>>}
        keep == {l \in lines : Len(SplitTab(l)) >= 3 /\ SplitTab(l)[3] = <<"0">>}
    IN  {SplitTab(l)[1] : l \in keep}

\* an error line with the flag in the second field
WikiErrLineFlagSecond(title, status, retryable, message) ==
    title \o <<TAB, IF retryable THEN "1" ELSE "0", TAB, StatusStr(status),
               TAB, "ts", TAB>> \o message

\* append_error(): f"{title}\t{status}\t{1 if retryable else 0}\t{ts}\t{message}\n"
WikiErrLine(title, status, retryable, message) ==
    title \o <<TAB, StatusStr(status), TAB, IF retryable THEN "1" ELSE "0",
               TAB, "ts", TAB>> \o message

\* web run(): f"{url}\t{reason}\n" and f"{url}\t{e}\n"
WebErrLine(url, message) == url \o <<TAB>> \o message

\* a start from the skip set alone
StartVisitedSkipOnly(v, doneSet, skip) == IF v = "web" THEN doneSet ELSE skip

\* a start that leaves the skip set out
StartVisitedNoSkip(v, doneSet, skip) == doneSet

\* the visited set a run starts with
StartVisited(v, doneSet, skip) ==
    IF v = "web" THEN doneSet ELSE doneSet \cup skip

----------------------------------------------------------------------------
(* File stems of the artifacts *)

SafeTokens == {"h", "g", "f", "c", "u", "p", "a", "x", "F", "C", "s", "_"}

\* save_page(): re.sub(r"[^a-zA-Z0-9._-]", "_", url)
safe_path(url) ==
    [i \in 1..Len(url) |-> IF url[i] \in SafeTokens THEN url[i] ELSE "_"]

\* urllib.parse.quote of one character
QuoteChar(c) ==
    CASE c \in SafeTokens -> c
      [] c = "#" -> "%23"
      [] c = SP -> "%20"
      [] c = TAB -> "%09"
      [] OTHER -> "%xx"

\* re.sub(r"\s+", "_", s): every run of whitespace becomes one "_"
RECURSIVE CollapseWs(_)
CollapseWs(s) ==
    IF s = <<>> THEN <<>>
    ELSE IF Head(s) \in Whitespace
         THEN <<"_">> \o CollapseWs(LStrip(s))
         ELSE <<Head(s)>> \o CollapseWs(Tail(s))

\* slugify(): strip, whitespace runs to "_", "/" to "_", then quote
slugify(name) ==
    LET s == CollapseWs(Strip(name))
    IN  [i \in 1..Len(s) |-> IF s[i] = "/" THEN "_" ELSE QuoteChar(s[i])]

Stem(v, id) == IF v = "web" THEN safe_path(id) ELSE slugify(id)

\* writing the artifact of id overwrites whatever had the same stem
SavedFiles(v, dir, id) ==
    {a \in dir : a.stem # Stem(v, id)}
        \cup {[stem |-> Stem(v, id), id |-> id, complete |-> TRUE]}

\* open(fn, "w") truncated the file and json.dump did not finish
PartialFiles(v, dir, id) ==
    {a \in dir : a.stem # Stem(v, id)}
        \cup {[stem |-> Stem(v, id), id |-> id, complete |-> FALSE]}

----------------------------------------------------------------------------
(* Policy gate (web) *)

\* f"{parsed.scheme}://{parsed.netloc}/robots.txt"
RobotsUrl(url) == <<url[1], "/robots.txt">>

\* a cache entry: None, or a parsed RobotFileParser, abstracted to the set
\* of URLs for which can_fetch(USER_AGENT, url) is false
NoneRp == [none |-> TRUE, disallow |-> {}]
Parsed(rules) == [none |-> FALSE, disallow |-> rules]

Rulesets == {{}, {A, B, C1}}

\* what requests.get(robots_url, timeout=5) may do
RobotsResponses ==
    {[kind |-> "response", status |-> 200, rules |-> r] : r \in Rulesets}
    \cup {[kind |-> "response", status |-> st, rules |-> {}] : st \in {500}}
    \cup {[kind |-> "exception", status |-> 0, rules |-> {}]}

Put(cache, k, v) == [x \in DOMAIN cache \cup {k} |-> IF x = k THEN v ELSE cache[x]]

\* rp_cache[robots_url] = None (on a status >= 400 and on an exception)
CacheNoneForgets(cache, ru) == cache

CacheNone(cache, ru) == Put(cache, ru, NoneRp)

\* the return for a cached None entry
RobotsUnavailableDenies(ru) ==
    [allowed |-> FALSE, reason |-> <<"robots_unavailable:">> \o ru]

RobotsUnavailable(ru) ==
    [allowed |-> TRUE, reason |-> <<"robots_unavailable:">> \o ru]

\* allowed_by_robots(url, rp_cache), given the response the robots request
\* gets if it is made: the returned pair, the cache afterwards, and whether
\* the robots document was requested
allowed_by_robots(url, cache, resp) ==
    LET ru == RobotsUrl(url)
        miss == ru \notin DOMAIN cache
        lookup(c) ==
            IF ru \notin DOMAIN c \/ c[ru].none
            THEN RobotsUnavailable(ru)
            ELSE IF url \notin c[ru].disallow
                 THEN [allowed |-> TRUE, reason |-> <<>>]
                 ELSE [allowed |-> FALSE, reason |-> <<"robots_disallow">>]
    IN  IF miss /\ resp.kind = "response" /\ resp.status >= 400
        THEN [ret |-> [allowed |-> TRUE,
                       reason |-> <<"robots_http_", StatusStr(resp.status), ":">> \o ru],
              cache |-> CacheNone(cache, ru), requested |-> TRUE]
        ELSE IF miss /\ resp.kind = "exception"
        THEN [ret |-> [allowed |-> TRUE, reason |-> <<"robots_read_failed:">> \o ru],
              cache |-> CacheNone(cache, ru), requested |-> TRUE]
        ELSE IF miss
        THEN [ret |-> lookup(Put(cache, ru, Parsed(resp.rules))),
              cache |-> Put(cache, ru, Parsed(resp.rules)), requested |-> TRUE]
        ELSE [ret |-> lookup(cache), cache |-> cache, requested |-> FALSE]

----------------------------------------------------------------------------
(* Links *)

\* normalize_url(): "" unless the scheme is http(s); the fragment is cut
normalize_url(link) ==
    IF link[1] \notin HttpOrigins THEN <<>>
    ELSE IF \E i \in 1..Len(link) : link[i] = "#"
         THEN SubSeq(link, 1, (CHOOSE i \in 1..Len(link) :
                  link[i] = "#" /\ \A m \in 1..(i - 1) : link[m] # "#") - 1)
         ELSE link

\* extract_links(): the normalized hrefs that are non-empty and footballish
extract_links(hrefs) ==
    LET norm == [i \in 1..Len(hrefs) |-> normalize_url(hrefs[i])]
        keep(u) == u # <<>> /\ is_footballish(u)
    IN  SelectSeq(norm, keep)

\* depth < max_depth
CanExpandOffByOne(depth, maxd) == depth <= maxd

CanExpand(depth, maxd) == depth < maxd

\* every link not yet visited, whatever it is about
QualifyingUnfiltered(v, links, seen) ==
    LET keep(u) == u # <<>> /\ u \notin seen
    IN  IF v = "web"
        THEN SelectSeq([i \in 1..Len(links) |-> normalize_url(links[i])], keep)
        ELSE SelectSeq(links, keep)

\* the links of a page that run() appends to the queue
Qualifying(v, links, seen) ==
    LET webKeep(u) == u \notin seen
        wikiKeep(u) == u \notin seen /\ is_footballish(u)
    IN  IF v = "web" THEN SelectSeq(extract_links(links), webKeep)
        ELSE SelectSeq(links, wikiKeep)

\* children two levels below their parent
ChildrenSkipLevel(ids, parent) ==
    [i \in 1..Len(ids) |->
        [id |-> ids[i], depth |-> parent.depth + 2,
         path |-> Append(parent.path, parent.id)]]

\* queue.append((u, depth + 1)) for each qualifying link, in order; the
\* path of ancestors is an observation, not part of the program's tuple
Children(ids, parent) ==
    [i \in 1..Len(ids) |->
        [id |-> ids[i], depth |-> parent.depth + 1,
         path |-> Append(parent.path, parent.id)]]

\* the pages a link list comes in: one, or a continuation page after it
LinkListPages == {1, 2}

\* queue.popleft()
PopRight(q) == [entry |-> q[Len(q)], rest |-> SubSeq(q, 1, Len(q) - 1)]

PopLeft(q) == [entry |-> Head(q), rest |-> Tail(q)]

\* visited.add(url)
VisitedAddNothing(seen, id) == seen

VisitedAdd(seen, id) == seen \cup {id}

----------------------------------------------------------------------------
(* Fetch outcomes *)

\* web: session.get(url) + raise_for_status(), after the adapter's retries
WebFetchOutcomes ==
    {[kind |-> "ok", status |-> 200, msg |-> <<>>, missing |-> FALSE,
      requests |-> 1],
     [kind |-> "http", status |-> 404, msg |-> <<"404", "Client Error">>,
      missing |-> FALSE, requests |-> 1]}

\* wiki: what the API request and the REST-summary fallback may answer
\* (status 0: no response, the call raised)
ApiResponses == {200, 403, 404, 418, 503, 0}
RestResponses == {200, 404}

\* fetch_page(title) in the default mode "extract", given the answer of the
\* API request, the answer of the fallback request, and whether the body of
\* a 200 answer of the API holds no page for the title (absent, or marked
\* missing); the fallback builds a page of its own from any body.
\* requests: the network requests issued, the fallback right after the API
\* request it follows
fetch_page(api, rest, nopage) ==
    IF api = 0
    THEN [kind |-> "exception", status |-> 0, msg |-> <<"exc">>,
          missing |-> FALSE, requests |-> 1]
    ELSE IF api \in {403, 429}
    THEN IF rest >= 400
         THEN [kind |-> "http", status |-> rest,
               msg |-> <<StatusStr(rest), "Client Error">>, missing |-> FALSE,
               requests |-> 2]
         ELSE [kind |-> "ok", status |-> api, msg |-> <<>>, missing |-> FALSE,
               requests |-> 2]
    ELSE IF api >= 400
    THEN [kind |-> "http", status |-> api,
          msg |-> <<StatusStr(api), "Client Error">>, missing |-> FALSE,
          requests |-> 1]
    ELSE [kind |-> "ok", status |-> api, msg |-> <<>>, missing |-> nopage,
          requests |-> 1]

WikiFetchOutcomes ==
    {fetch_page(a, r, m) : a \in ApiResponses, r \in RestResponses, m \in BOOLEAN}

\* a classification by the permanent set alone
RetryableUnlessPermanent(status) == status \notin PERMANENT_STATUS

\* wiki run(): retryable = status in RETRYABLE_STATUS
Retryable(status) == status \in RETRYABLE_STATUS

\* the error-log line run() writes for a failed fetch
FetchErrLine(v, id, out) ==
    IF v = "web" THEN WebErrLine(id, out.msg)
    ELSE IF out.kind = "http"
         THEN WikiErrLine(id, out.status, Retryable(out.status), out.msg)
         ELSE WikiErrLine(id, 0, TRUE, out.msg)

\* the error-log line run() writes when an exception other than an
\* HTTPError reaches its handler
ExcErrLine(v, id, msg) ==
    IF v = "web" THEN WebErrLine(id, msg) ELSE WikiErrLine(id, 0, TRUE, msg)

----------------------------------------------------------------------------
(* State *)

NoCur == [id |-> <<>>, depth |-> 0, path |-> <<>>]
NoGate == [url |-> <<>>, allowed |-> TRUE, reason |-> <<>>]
EmptyCache == [x \in {} |-> NoneRp]

NoFailure == [kind |-> "none", status |-> 0]

NoHist ==
    [attempts |-> <<>>,      \* the entries taken from the queue and not dropped
     fetched |-> <<>>,       \* the ids a page fetch was issued for
     robotsReq |-> <<>>,     \* the robots documents requested
     robotsFailed |-> {},    \* robots urls whose request answered >= 400 or raised
     denied |-> {},          \* the urls the gate denied
     saved |-> <<>>,         \* the ids whose artifact was written
     doneStart |-> 0,        \* Len(doneFile) when the run started
     errStart |-> 0,         \* Len(errFile) when the run started
     slept |-> 0,            \* the inter-request delays performed
     requests |-> 0,         \* the network requests issued since the last delay
     failure |-> NoFailure,  \* how the page fetch of cur failed, if it did
     linkFail |-> FALSE,     \* obtaining the links of cur failed
     missing |-> FALSE,      \* the API answered the fetch of cur without a page
     appended |-> {},        \* ledger replay: the appends made, as called
     interrupted |-> <<>>]   \* the identity whose processing, short of its done
                             \* append, the crash before this run interrupted

EmptyResults(v) == IF v = "web" THEN 0 ELSE <<>>

\* web: results; wiki: len(results) + len(done)
Count == IF variant = "web" THEN results ELSE Len(results) + Cardinality(done)

\* while queue and results < max_pages
LoopCondOffByOne == queue # <<>> /\ Count <= max_pages

LoopCond == queue # <<>> /\ Count < max_pages

Init ==
    /\ variant \in {"web", "wiki"}
    /\ seeds \in (IF variant = "web" THEN SeedLists ELSE {TOPICS})
    /\ max_depth \in DepthCaps
    /\ max_pages \in PageCaps
    /\ pc = "idle"
    /\ doneFile = <<>>
    /\ errFile = <<>>
    /\ artifacts = {}
    /\ manifest = <<>>
    /\ queue = <<>>
    /\ visited = {}
    /\ done = {}
    /\ results = EmptyResults(variant)
    /\ cur = NoCur
    /\ rp_cache = EmptyCache
    /\ gate = NoGate
    /\ hist = NoHist
    /\ taken = 0

\* the pc after a denial: continue inside try, so the finally clause runs
AfterDenialNoDelay == "loop"

AfterDenial == "sleep"

\* the except handler of run(): the error-log append either is written and
\* the iteration goes on to its finally clause, or raises (OSError) out of
\* the handler, and then out of run() once the finally clause has slept
except_handler(line) ==
    \/ /\ errFile' = Append(errFile, line)
       /\ pc' = "sleep"
    \/ /\ errFile' = errFile
       /\ pc' = "raised"

\* run() up to the loop: load the ledgers, seed the queue
StartRun ==
    /\ pc \in {"idle", "ended", "raised"}
    /\ taken < MaxTaken
    /\ queue' = [i \in 1..Len(seeds) |->
                    [id |-> seeds[i], depth |-> 0, path |-> <<>>]]
    /\ done' = LoadDone(doneFile)
    /\ visited' = StartVisited(variant, LoadDone(doneFile),
                               load_permanent_errors(errFile))
    /\ results' = EmptyResults(variant)
    /\ cur' = NoCur
    /\ rp_cache' = EmptyCache
    /\ gate' = NoGate
    /\ hist' = [NoHist EXCEPT !.doneStart = Len(doneFile),
                              !.errStart = Len(errFile),
                              !.interrupted = IF pc = "idle" THEN hist.interrupted
                                              ELSE <<>>]
    /\ pc' = "loop"
    /\ taken' = IF pc = "idle" THEN taken ELSE taken + 1
    /\ UNCHANGED <<config, files>>

\* the pc after the popleft of a visited identity: continue before the try
\* block is entered, so no finally clause runs
AfterDropDelays == "sleep"

AfterDrop == "loop"

\* popleft of an identity already in visited: continue
Drop ==
    /\ pc = "loop"
    /\ LoopCond
    /\ PopLeft(queue).entry.id \in visited
    /\ queue' = PopLeft(queue).rest
    /\ pc' = AfterDrop
    /\ UNCHANGED <<config, files, visited, done, results, cur, rp_cache,
                   gate, hist, taken>>

\* popleft of a new identity: visited.add, enter the try block
Take ==
    /\ pc = "loop"
    /\ LoopCond
    /\ taken < MaxTaken
    /\ LET e == PopLeft(queue).entry
       IN  /\ e.id \notin visited
           /\ queue' = PopLeft(queue).rest
           /\ visited' = VisitedAdd(visited, e.id)
           /\ cur' = e
           /\ hist' = [hist EXCEPT
                         !.attempts = Append(@, e)]
    /\ taken' = taken + 1
    /\ pc' = IF variant = "web" THEN "gate" ELSE "fetch"
    /\ UNCHANGED <<config, files, done, results, rp_cache, gate>>

\* the loop condition is false: web run() returns, wiki run() writes the manifest
Exit ==
    /\ pc = "loop"
    /\ ~LoopCond
    /\ manifest' = IF variant = "wiki" THEN results ELSE manifest
    /\ pc' = "ended"
    /\ UNCHANGED <<config, doneFile, errFile, artifacts, memory, hist, taken>>

\* web: allowed_by_robots(url, rp_cache); a denial is logged and skips the fetch
Gate ==
    /\ pc = "gate"
    /\ \E resp \in RobotsResponses :
          LET r == allowed_by_robots(cur.id, rp_cache, resp)
              ru == RobotsUrl(cur.id)
          IN  /\ rp_cache' = r.cache
              /\ gate' = [url |-> cur.id, allowed |-> r.ret.allowed,
                          reason |-> r.ret.reason]
              /\ hist' = [hist EXCEPT
                    !.robotsReq = IF r.requested THEN Append(@, ru) ELSE @,
                    !.requests = IF r.requested THEN @ + 1 ELSE @,
                    !.robotsFailed =
                        IF r.requested /\ (resp.kind = "exception" \/ resp.status >= 400)
                        THEN @ \cup {ru} ELSE @,
                    !.denied = IF r.ret.allowed THEN @ ELSE @ \cup {cur.id}]
              /\ \/ /\ r.ret.allowed
                    /\ errFile' = errFile
                    /\ pc' = "fetch"
                 \/ /\ ~r.ret.allowed
                    /\ errFile' = Append(errFile, WebErrLine(cur.id, r.ret.reason))
                    /\ pc' = AfterDenial
                 \/ /\ ~r.ret.allowed     \* the denial's own append raises
                    /\ except_handler(WebErrLine(cur.id, <<"exc">>))
    /\ UNCHANGED <<config, doneFile, artifacts, manifest, queue, visited, done,
                   results, cur, taken>>

\* the page fetch succeeds (wiki: results.append precedes the save)
FetchOk ==
    /\ pc = "fetch"
    /\ \E out \in (IF variant = "web" THEN WebFetchOutcomes ELSE WikiFetchOutcomes) :
          /\ out.kind = "ok"
          /\ hist' = [hist EXCEPT !.fetched = Append(@, cur.id),
                                  !.requests = @ + out.requests,
                                  !.missing = out.missing]
    /\ results' = IF variant = "wiki" THEN Append(results, cur.id) ELSE results
    /\ pc' = "save"
    /\ UNCHANGED <<config, files, queue, visited, done, cur, rp_cache, gate, taken>>

\* the page fetch fails: the except handler appends to the error log
FetchFail ==
    /\ pc = "fetch"
    /\ \E out \in (IF variant = "web" THEN WebFetchOutcomes ELSE WikiFetchOutcomes) :
          /\ out.kind # "ok"
          /\ except_handler(FetchErrLine(variant, cur.id, out))
          /\ hist' = [hist EXCEPT
                !.fetched = Append(@, cur.id),
                !.requests = @ + out.requests,
                !.failure = [kind |-> out.kind, status |-> out.status]]
    /\ UNCHANGED <<config, doneFile, artifacts, manifest, memory, taken>>

\* save_page / save_page_json writes the artifact
SaveOk ==
    /\ pc = "save"
    /\ artifacts' = SavedFiles(variant, artifacts, cur.id)
    /\ hist' = [hist EXCEPT !.saved = Append(@, cur.id)]
    /\ pc' = "done"
    /\ UNCHANGED <<config, doneFile, errFile, manifest, memory, taken>>

\* save_page / save_page_json raises (OSError) before or after it opened the
\* file for writing: the handler logs it
SaveFail ==
    /\ pc = "save"
    /\ except_handler(ExcErrLine(variant, cur.id, <<"exc">>))
    /\ artifacts' \in {artifacts, PartialFiles(variant, artifacts, cur.id)}
    /\ UNCHANGED <<config, doneFile, manifest, memory, hist, taken>>

\* the done-log append (web: results += 1)
AppendDone ==
    /\ pc = "done"
    /\ doneFile' = Append(doneFile, cur.id)
    /\ results' = IF variant = "web" THEN results + 1 ELSE results
    /\ pc' = "expand"
    /\ UNCHANGED <<config, errFile, artifacts, manifest, queue, visited, done,
                   cur, rp_cache, gate, hist, taken>>

\* open(DONE_FILE, "a") raises (OSError): the handler logs it
AppendDoneFail ==
    /\ pc = "done"
    /\ except_handler(ExcErrLine(variant, cur.id, <<"exc">>))
    /\ UNCHANGED <<config, doneFile, artifacts, manifest, memory, hist, taken>>

\* depth < max_depth: the qualifying links are appended at depth + 1 (web:
\* the links of the fetched html; wiki: fetch_links, one request for every
\* page of the link list, a continuation page right after the page before)
Expand ==
    /\ pc = "expand"
    /\ CanExpand(cur.depth, max_depth)
    /\ \E links \in (IF variant = "web" THEN WebLinkLists ELSE WikiLinkLists) :
          queue' = queue \o Children(Qualifying(variant, links, visited), cur)
    /\ \E n \in (IF variant = "web" THEN {0} ELSE LinkListPages) :
          hist' = [hist EXCEPT !.requests = @ + n]
    /\ pc' = "sleep"
    /\ UNCHANGED <<config, files, visited, done, results, cur, rp_cache, gate,
                   taken>>

\* wiki fetch_links: the link-list request is answered 403 or 429
LinksThrottled ==
    /\ pc = "expand"
    /\ variant = "wiki"
    /\ CanExpand(cur.depth, max_depth)
    /\ hist' = [hist EXCEPT !.requests = @ + 1]
    /\ pc' = "backoff"
    /\ UNCHANGED <<config, files, memory, taken>>

\* wiki fetch_links: time.sleep(max(1.0, delay)); continue
Backoff ==
    /\ pc = "backoff"
    /\ hist' = [hist EXCEPT !.requests = 0]
    /\ pc' = "expand"
    /\ UNCHANGED <<config, files, memory, taken>>

\* depth < max_depth and extract_links / fetch_links raises: web logs the
\* exception in the error log, wiki prints it
ExpandFail ==
    /\ pc = "expand"
    /\ CanExpand(cur.depth, max_depth)
    /\ IF variant = "web"
       THEN except_handler(WebErrLine(cur.id, <<"exc">>))
       ELSE errFile' = errFile /\ pc' = "sleep"
    /\ hist' = [hist EXCEPT !.linkFail = TRUE,
                            !.requests = IF variant = "web" THEN @ ELSE @ + 1]
    /\ UNCHANGED <<config, doneFile, artifacts, manifest, memory, taken>>

\* depth >= max_depth: no link expansion
NoExpand ==
    /\ pc = "expand"
    /\ ~CanExpand(cur.depth, max_depth)
    /\ pc' = "sleep"
    /\ UNCHANGED <<config, files, memory, hist, taken>>

\* finally: time.sleep(delay); the iteration's locals are dead
Sleep ==
    /\ pc = "sleep"
    /\ pc' = "loop"
    /\ cur' = NoCur
    /\ gate' = NoGate
    /\ hist' = [hist EXCEPT !.slept = @ + 1,
                            !.requests = 0,
                            !.failure = NoFailure,
                            !.linkFail = FALSE,
                            !.missing = FALSE]
    /\ UNCHANGED <<config, files, queue, visited, done, results, rp_cache,
                   taken>>

\* the process dies inside run(): the files stay (a file being written
\* stays unfinished), the memory is gone
Crash ==
    /\ pc \notin {"idle", "ended", "raised"}
    /\ taken < MaxTaken
    /\ taken' = taken + 1
    /\ pc' = "idle"
    /\ queue' = <<>>
    /\ visited' = {}
    /\ done' = {}
    /\ results' = EmptyResults(variant)
    /\ cur' = NoCur
    /\ rp_cache' = EmptyCache
    /\ gate' = NoGate
    /\ hist' = [NoHist EXCEPT !.interrupted =
                    IF pc \in {"gate", "fetch", "save", "done"} THEN cur.id ELSE <<>>]
    /\ artifacts' \in {artifacts} \cup
            (IF pc = "save" THEN {PartialFiles(variant, artifacts, cur.id)} ELSE {})
    /\ UNCHANGED <<config, doneFile, errFile, manifest>>

Next ==
    \/ StartRun
    \/ Drop
    \/ Take
    \/ Exit
    \/ Gate
    \/ FetchOk
    \/ FetchFail
    \/ SaveOk
    \/ SaveFail
    \/ AppendDone
    \/ AppendDoneFail
    \/ Expand
    \/ LinksThrottled
    \/ Backoff
    \/ ExpandFail
    \/ NoExpand
    \/ Sleep
    \/ Crash

Spec == Init /\ [][Next]_vars

\* One run of the process, from its start to its end, that nothing kills:
\* the interpreter executes run() statement after statement, and every
\* network call returns or times out, so a step that can be taken is taken.
FirstRun == pc = "idle" /\ StartRun

RunNext ==
    \/ FirstRun
    \/ Drop
    \/ Take
    \/ Exit
    \/ Gate
    \/ FetchOk
    \/ FetchFail
    \/ SaveOk
    \/ SaveFail
    \/ AppendDone
    \/ AppendDoneFail
    \/ Expand
    \/ LinksThrottled
    \/ Backoff
    \/ ExpandFail
    \/ NoExpand
    \/ Sleep

RunSpec == Init /\ [][RunNext]_vars /\ WF_vars(RunNext)

----------------------------------------------------------------------------
(* Ledger replay (wiki): the done-log append of run(), append_error and    *)
(* the two loaders, applied to titles and messages of any content.  A      *)
(* written text reaches the file as the lines its newlines cut it into.    *)

\* the lines `for line in f` reads back from a written text
RECURSIVE SplitNl(_)
SplitNl(s) ==
    IF \E i \in 1..Len(s) : s[i] = NL
    THEN LET i == CHOOSE k \in 1..Len(s) :
                      s[k] = NL /\ \A m \in 1..(k - 1) : s[m] # NL
         IN  <<SubSeq(s, 1, i - 1)>> \o SplitNl(SubSeq(s, i + 1, Len(s)))
    ELSE <<s>>

\* f.write(text + "\n") on a file opened for append
AppendText(f, text) == f \o SplitNl(text)

LedgerTitles == {A, B, W}

\* str(e): one line, or text holding a newline
LedgerMessages == {<<"exc">>, <<"exc", NL>> \o B \o <<TAB, "404", TAB, "0">>}

LedgerInit ==
    /\ variant = "wiki"
    /\ seeds = TOPICS
    /\ max_depth = 0
    /\ max_pages = 0
    /\ pc = "ledger"
    /\ doneFile = <<>>
    /\ errFile = <<>>
    /\ artifacts = {}
    /\ manifest = <<>>
    /\ queue = <<>>
    /\ visited = {}
    /\ done = {}
    /\ results = EmptyResults("wiki")
    /\ cur = NoCur
    /\ rp_cache = EmptyCache
    /\ gate = NoGate
    /\ hist = NoHist
    /\ taken = 0

\* f.write(title + "\n") to DONE_FILE
LedgerDone ==
    /\ pc = "ledger"
    /\ Len(doneFile) < MaxLedger
    /\ \E t \in LedgerTitles :
          /\ doneFile' = AppendText(doneFile, t)
          /\ hist' = [hist EXCEPT !.appended =
                        @ \cup {[log |-> "done", id |-> t, retryable |-> TRUE,
                                 message |-> <<>>]}]
    /\ UNCHANGED <<config, pc, errFile, artifacts, manifest, memory, taken>>

\* append_error(title, status, retryable, message)
LedgerError ==
    /\ pc = "ledger"
    /\ Len(errFile) < MaxLedger
    /\ \E t \in LedgerTitles, r \in BOOLEAN, m \in LedgerMessages :
          /\ errFile' = AppendText(errFile, WikiErrLine(t, 404, r, m))
          /\ hist' = [hist EXCEPT !.appended =
                        @ \cup {[log |-> "error", id |-> t, retryable |-> r,
                                 message |-> m]}]
    /\ UNCHANGED <<config, pc, doneFile, artifacts, manifest, memory, taken>>

\* the loads at the head of run()
LedgerLoad ==
    /\ pc = "ledger"
    /\ done' = LoadDone(doneFile)
    /\ visited' = StartVisited(variant, LoadDone(doneFile),
                               load_permanent_errors(errFile))
    /\ pc' = "loaded"
    /\ UNCHANGED <<config, files, queue, results, cur, rp_cache, gate, hist, taken>>

LedgerNext ==
    \/ LedgerDone
    \/ LedgerError
    \/ LedgerLoad

LedgerSpec == LedgerInit /\ [][LedgerNext]_vars

----------------------------------------------------------------------------
(* File stems: save_page (web) and save_page_json (wiki) applied, one      *)
(* after the other, to identities of any spelling in one output directory. *)

\* "fc", and spellings around it: a space, a slash, an underscore, a
\* question mark, two spaces between the letters, a trailing space
StemInputs ==
    {<<"f", "c">>, <<"f", SP, "c">>, <<"f", "/", "c">>, <<"f", "_", "c">>,
     <<"f", "?", "c">>, <<"f", SP, SP, "c">>, <<"f", "c", SP>>, A}

StemInit ==
    /\ variant \in {"web", "wiki"}
    /\ seeds = <<>>
    /\ max_depth = 0
    /\ max_pages = 0
    /\ pc = "stem"
    /\ doneFile = <<>>
    /\ errFile = <<>>
    /\ artifacts = {}
    /\ manifest = <<>>
    /\ queue = <<>>
    /\ visited = {}
    /\ done = {}
    /\ results = EmptyResults(variant)
    /\ cur = NoCur
    /\ rp_cache = EmptyCache
    /\ gate = NoGate
    /\ hist = NoHist
    /\ taken = 0

\* save_page(url, html, text) / save_page_json(title, data)
StemSave ==
    /\ pc = "stem"
    /\ Len(hist.saved) < MaxSaves
    /\ \E id \in StemInputs :
          /\ artifacts' = SavedFiles(variant, artifacts, id)
          /\ hist' = [hist EXCEPT !.saved = Append(@, id)]
    /\ UNCHANGED <<config, pc, doneFile, errFile, manifest, memory, taken>>

StemNext == StemSave

StemSpec == StemInit /\ [][StemNext]_vars

----------------------------------------------------------------------------
(* Vocabulary of the properties *)

Universe == {A, B, C1, C2, X, W}

Range(s) == {s[i] : i \in DOMAIN s}

NoDup(s) == \A i, j \in DOMAIN s : i # j => s[i] # s[j]

Occurrences(s, x) == Cardinality({i \in DOMAIN s : s[i] = x})

\* a run is in progress or has ended normally: hist describes it
InRun == pc # "idle"

AttemptedIds == {hist.attempts[i].id : i \in DOMAIN hist.attempts}

\* the lines this run appended to the ledgers
DoneThisRun == SubSeq(doneFile, hist.doneStart + 1, Len(doneFile))
ErrThisRun == SubSeq(errFile, hist.errStart + 1, Len(errFile))

\* the lines the ledgers held when the run started
DoneAtStart == SubSeq(doneFile, 1, hist.doneStart)
ErrAtStart == SubSeq(errFile, 1, hist.errStart)

\* an error-log line about id, and its retryable flag (third field)
LineAbout(line, id) == SplitTab(line)[1] = id
FlagOf(line) == IF Len(SplitTab(line)) >= 3 THEN SplitTab(line)[3] ELSE <<>>
MarkedNonRetryable(line) == FlagOf(line) = <<"0">>
MarkedRetryable(line) == FlagOf(line) = <<"1">>

HasPermanentEntry(log, id) ==
    \E i \in DOMAIN log : LineAbout(log[i], id) /\ MarkedNonRetryable(log[i])

OnlyRetryableEntries(log, id) ==
    /\ \E i \in DOMAIN log : LineAbout(log[i], id)
    /\ \A i \in DOMAIN log : LineAbout(log[i], id) => MarkedRetryable(log[i])

----------------------------------------------------------------------------
(* C1: resume idempotence.  In both crawlers, no identity that the done   *)
(* log holds when a run starts is fetched during that run.                 *)
C1_ResumeIdempotence ==
    InRun => \A i \in DOMAIN DoneAtStart : DoneAtStart[i] \notin Range(hist.fetched)

(* C2: permanent-skip monotonicity (wiki).  An identity that has an        *)
(* error-log entry with retryable=false when a run starts is not fetched   *)
(* in that run and is not appended to the frontier by link expansion.      *)
C2_PermanentSkip ==
    (variant = "wiki" /\ InRun) =>
        \A id \in Universe :
            HasPermanentEntry(ErrAtStart, id) =>
                /\ id \notin Range(hist.fetched)
                /\ id \notin AttemptedIds
                /\ \A i \in DOMAIN queue : queue[i].depth > 0 => queue[i].id # id

\* a later wiki run has dropped the permanently failed seed A, has fetched
\* B and has expanded B's links, A among them, without appending A
C2_Witness ==
    /\ variant = "wiki"
    /\ pc = "sleep"
    /\ HasPermanentEntry(ErrAtStart, A)
    /\ cur.id = B
    /\ B \in Range(DoneThisRun)
    /\ Len(queue) = 2
    /\ \A i \in DOMAIN queue : queue[i].id = C1 /\ queue[i].path = <<B>>

(* C3: retryable eligibility (wiki).  An identity whose error-log entries  *)
(* all have retryable=true and which is not in the done log is not in the  *)
(* visited set when the next run starts, and the run takes it (enters the  *)
(* fetch) when it first pops it.                                           *)
EligibleAtStart(id) ==
    /\ OnlyRetryableEntries(ErrAtStart, id)
    /\ id \notin Range(DoneAtStart)

C3_RetryableEligible ==
    /\ [](variant = "wiki" /\ pc \in {"save", "done", "expand", "sleep"}
            => cur.id \in Range(hist.fetched))
    /\ [][variant = "wiki" =>
        /\ (pc \in {"idle", "ended"} /\ pc' = "loop") =>
              \A id \in Universe :
                  (OnlyRetryableEntries(errFile, id) /\ id \notin Range(doneFile))
                      => id \notin visited'
        /\ (pc = "loop" /\ pc' # "idle" /\ queue # <<>> /\ queue' = Tail(queue)
              /\ EligibleAtStart(Head(queue).id)
              /\ Head(queue).id \notin AttemptedIds) =>
              (pc' = "fetch" /\ cur'.id = Head(queue).id)]_vars

\* a later wiki run has fetched A again, which the error log held only
\* with retryable=true when the run started
C3_Witness ==
    /\ variant = "wiki"
    /\ InRun
    /\ EligibleAtStart(A)
    /\ A \in Range(hist.fetched)

(* C4: depth bound.  Every frontier entry has a depth in 0..max_depth; an  *)
(* entry of depth 0 is a seed; an entry of depth d > 0 was reached from a  *)
(* seed through d link expansions of pages fetched and logged done in this *)
(* run; with max_depth = 0 only seeds are fetched.                         *)
DepthOk(e) ==
    /\ e.depth \in 0..max_depth
    /\ Len(e.path) = e.depth
    /\ e.depth = 0 => e.id \in Range(seeds)
    /\ e.depth > 0 => e.path[1] \in Range(seeds)
    /\ \A k \in DOMAIN e.path : e.path[k] \in Range(DoneThisRun)

C4_DepthBound ==
    InRun =>
        /\ \A i \in DOMAIN queue : DepthOk(queue[i])
        /\ \A i \in DOMAIN hist.attempts : DepthOk(hist.attempts[i])
        /\ Range(hist.fetched) \subseteq AttemptedIds
        /\ max_depth = 0 => Range(hist.fetched) \subseteq Range(seeds)

\* an identity at the deepest allowed depth, reached through a link of a
\* seed, has been fetched
C4_Witness ==
    /\ InRun
    /\ max_depth >= 1
    /\ pc = "save"
    /\ cur.depth = max_depth
    /\ cur.id \in Range(hist.fetched)
    /\ cur.id \notin Range(seeds)

(* C5: cap enforcement.  No run writes more than max_pages artifacts,      *)
(* apart from the artifacts of identities whose done-log append failed     *)
(* after the save (the web crawler does not count those); a run started    *)
(* with empty ledgers in which max_pages identities were fetched and       *)
(* persisted, none of them losing its done-log append, has written exactly *)
(* max_pages artifacts, and the only step it takes from the head of its    *)
(* loop is to leave the loop.                                              *)
CapReached ==
    /\ hist.doneStart = 0
    /\ hist.errStart = 0
    /\ pc \in {"loop", "ended"}
    /\ Len(DoneThisRun) >= max_pages

\* the identities saved in this run whose done-log append raised
Unlogged ==
    {id \in Range(hist.saved) :
        id \notin Range(DoneThisRun) /\ ~(pc = "done" /\ cur.id = id)}

AttemptIds == [i \in DOMAIN hist.attempts |-> hist.attempts[i].id]

ExampleRun ==
    /\ seeds = <<A, B>>
    /\ Len(hist.attempts) = 4
    /\ AttemptedIds = {A, B, C1, C2}
    /\ \A i \in DOMAIN hist.attempts :
          hist.attempts[i].id \in {C1, C2} => hist.attempts[i].path = <<A>>

C6_StrictFifo ==
    /\ [](InRun =>
            /\ \A i, j \in DOMAIN hist.attempts :
                  i < j => hist.attempts[i].depth <= hist.attempts[j].depth
            /\ ExampleRun => AttemptIds = <<A, B, C1, C2>>)
    /\ [][(pc \notin {"idle", "ended", "raised"} /\ pc' # "idle") =>
            \/ queue' = queue
            \/ queue # <<>> /\ queue' = Tail(queue)
                 /\ (cur' # cur => cur' = Head(queue))
            \/ Len(queue') > Len(queue)
                 /\ SubSeq(queue', 1, Len(queue)) = queue]_vars

\* the run of the example has attempted A, B, C1, C2 in this order
C6_Witness ==
    /\ InRun
    /\ ExampleRun
    /\ AttemptIds = <<A, B, C1, C2>>

(* C7: policy fail-open.  Once the request for an origin's robots document *)
(* has answered with a status >= 400 or raised, every allowed_by_robots    *)
(* call of the run for a URL of that origin, the first and the later ones, *)
(* returns allowed = true with a non-empty reason and logs no denial.      *)
C7_PolicyFailOpen ==
    (variant = "web" /\ InRun /\ gate.url # <<>>
        /\ RobotsUrl(gate.url) \in hist.robotsFailed) =>
        /\ gate.allowed
        /\ gate.reason # <<>>
        /\ gate.url \notin hist.denied
        /\ pc = "fetch" => cur.id = gate.url

\* a later query for an origin whose robots request had failed: the cached
\* None answers "robots_unavailable"
C7_Witness ==
    /\ variant = "web"
    /\ pc = "fetch"
    /\ gate.url = cur.id
    /\ RobotsUrl(cur.id) \in hist.robotsFailed
    /\ gate.allowed
    /\ gate.reason = <<"robots_unavailable:">> \o RobotsUrl(cur.id)
    /\ Len(hist.attempts) >= 2

(* C8: policy denial (web).  For a URL the gate denied: no page fetch is   *)
(* issued for it in the run, it is not logged done, it is attempted once,  *)
(* exactly one error-log line is appended for it, and that line marks it   *)
(* non-retryable (its retryable flag is "0").                              *)
DenialLines(u) == {i \in DOMAIN ErrThisRun : LineAbout(ErrThisRun[i], u)}

DenialEffects(u) ==
    /\ u \notin Range(hist.fetched)
    /\ u \notin Range(DoneThisRun)
    /\ Occurrences(AttemptIds, u) = 1
    /\ Cardinality(DenialLines(u)) = 1
    /\ results = Len(DoneThisRun)

DenialMarked(u) == \A i \in DenialLines(u) : MarkedNonRetryable(ErrThisRun[i])

\* everything the claim says but the mark: holds of the web crawler
C8_DenialEffectsHold ==
    (variant = "web" /\ InRun /\ pc # "raised") =>
        \A u \in hist.denied : DenialEffects(u)

C8_PolicyDenial ==
    (variant = "web" /\ InRun) =>
        \A u \in hist.denied : DenialEffects(u) /\ DenialMarked(u)

(* C9: policy cache.  In a run the robots document of an origin is         *)
(* requested at most once, and only for an origin not yet in the cache.    *)
C9_PolicyCache ==
    (variant = "web" /\ InRun) =>
        /\ NoDup(hist.robotsReq)
        /\ Range(hist.robotsReq) = DOMAIN rp_cache

\* two URLs of one origin have been checked; the one robots request of the
\* origin had failed
C9_Witness ==
    /\ variant = "web"
    /\ pc = "fetch"
    /\ cur.id = C1
    /\ A \in AttemptedIds
    /\ RobotsUrl(C1) \in hist.robotsFailed
    /\ Occurrences(hist.robotsReq, RobotsUrl(C1)) = 1

(* C10: at most one fetch per identity per run.  No identity is taken from *)
(* the frontier or fetched twice in a run, and link expansion appends no   *)
(* identity that was already attempted, whatever became of the attempt.    *)
C10_AtMostOnce ==
    /\ [](InRun => NoDup(AttemptIds) /\ NoDup(hist.fetched))
    /\ [][(pc = "expand" /\ Len(queue') > Len(queue)) =>
            \A i \in (Len(queue) + 1)..Len(queue') :
                queue'[i].id \notin AttemptedIds]_vars

\* the fetch of A failed, and the links of B, A among them, have been
\* expanded without A returning to the frontier
C10_Witness ==
    /\ InRun
    /\ pc = "sleep"
    /\ cur.id = B
    /\ A \in Range(hist.fetched)
    /\ A \notin Range(doneFile)
    /\ \E i \in DOMAIN ErrThisRun : LineAbout(ErrThisRun[i], A)
    /\ Len(queue) = 2
    /\ \A i \in DOMAIN queue : queue[i].id = C1 /\ queue[i].path = <<B>>

(* C11: failure classification (wiki).  A failed fetch whose handler ends  *)
(* has exactly one error-log entry, the last line of the log; its status   *)
(* field is the failure's status code, 0 when the failure carries none;    *)
(* its retryable flag is 1 if and only if the status is one of 403, 408,   *)
(* 429, 500, 502, 503, 504, 520, 522 or the failure carries no status, and *)
(* 0 for every other status.                                               *)
TransientCodes == {403, 408, 429, 500, 502, 503, 504, 520, 522}

FailureLines == {i \in DOMAIN ErrThisRun : LineAbout(ErrThisRun[i], cur.id)}

C11_FailureClassification ==
    (variant = "wiki" /\ pc = "sleep" /\ hist.failure.kind # "none") =>
        /\ FailureLines = {Len(ErrThisRun)}
        /\ cur.id \notin Range(DoneThisRun)
        /\ LET l == ErrThisRun[Len(ErrThisRun)]
               noStatus == hist.failure.kind = "exception"
               code == IF noStatus THEN 0 ELSE hist.failure.status
           IN  /\ Len(SplitTab(l)) >= 3
               /\ SplitTab(l)[2] = <<StatusStr(code)>>
               /\ MarkedRetryable(l) <=> (noStatus \/ code \in TransientCodes)
               /\ MarkedNonRetryable(l) <=> ~(noStatus \/ code \in TransientCodes)

\* a status outside both sets (418) has just been logged non-retryable, after
\* an earlier failure of the run was logged retryable
C11_Witness ==
    /\ variant = "wiki"
    /\ pc = "sleep"
    /\ hist.failure = [kind |-> "http", status |-> 418]
    /\ MarkedNonRetryable(ErrThisRun[Len(ErrThisRun)])
    /\ Len(ErrThisRun) = 2
    /\ MarkedRetryable(ErrThisRun[1])

(* C12: politeness between attempts.  Every attempt of a run but the first *)
(* starts after one inter-request delay more than the attempt before it:   *)
(* the delays performed number the attempts at the head of the loop, and   *)
(* one less while an attempt is in progress, whether the attempts          *)
(* succeeded, failed or were denied.                                       *)
C12_Politeness ==
    InRun =>
        /\ pc \in {"loop", "ended"} => hist.slept = Len(hist.attempts)
        /\ pc \notin {"loop", "ended"} => hist.slept + 1 = Len(hist.attempts)

\* the second attempt of a run is under way, after a denied first one
C12_Witness ==
    /\ variant = "web"
    /\ pc = "fetch"
    /\ Len(hist.attempts) = 2
    /\ hist.attempts[1].id \in hist.denied
    /\ hist.slept = 1

(* C13: no run-aborting fault.  No failure of the policy check, the fetch, *)
(* the save, the done-log append, the link expansion or the error-log      *)
(* append ends the run: run() is never left by an exception, and it        *)
(* returns only with an empty frontier or the page cap reached.            *)
C13_NoAbortingFault ==
    /\ pc # "raised"
    /\ pc = "ended" => (queue = <<>> \/ Count >= max_pages)

\* what holds of the code: run() returns only with an empty frontier or the
\* cap reached, and every failure whose error-log append is written leads
\* to the delay and the next entry
C13_HandledFailuresContinue ==
    /\ [](pc = "ended" => (queue = <<>> \/ Count >= max_pages))
    /\ [][(InRun /\ errFile' # errFile) => pc' = "sleep"]_vars

(* C14: link-expansion failure.  When obtaining the links of a fetched,   *)
(* saved and logged identity fails, the run goes on to its delay, the      *)
(* identity is in the done log, and the run has written no error-log entry *)
(* for it.                                                                 *)
C14_LinkExpansionFailure ==
    (InRun /\ hist.linkFail) =>
        /\ pc = "sleep"
        /\ cur.id \in Range(DoneThisRun)
        /\ FailureLines = {}

\* the wiki crawler does what the statement says
C14_WikiHolds == variant = "wiki" => C14_LinkExpansionFailure

(* C15: ledger replay round trip (wiki).  After any sequence of done       *)
(* appends and append_error calls whose titles are non-empty and free of   *)
(* surrounding whitespace, tabs and newlines and whose messages are free   *)
(* of newlines, the loaded done set is exactly the set of titles appended  *)
(* to the done log and the loaded skip set exactly the set of titles       *)
(* appended with retryable = false.                                        *)
PutDone == {c.id : c \in {x \in hist.appended : x.log = "done"}}

PutPermanent ==
    {c.id : c \in {x \in hist.appended : x.log = "error" /\ ~x.retryable}}

CleanTitle(t) ==
    /\ t # <<>>
    /\ Strip(t) = t
    /\ \A i \in DOMAIN t : t[i] \notin {TAB, NL}

CleanAppends ==
    \A c \in hist.appended :
        CleanTitle(c.id) /\ \A i \in DOMAIN c.message : c.message[i] # NL

ReplayExact ==
    /\ LoadDone(doneFile) = PutDone
    /\ load_permanent_errors(errFile) = PutPermanent
    /\ pc = "loaded" => (done = PutDone /\ visited = PutDone \cup PutPermanent)

C15_LedgerReplay == (pc \in {"ledger", "loaded"} /\ CleanAppends) => ReplayExact

\* a done title, a permanent and a retryable error have been replayed
C15_Witness ==
    /\ pc = "loaded"
    /\ CleanAppends
    /\ done = {A}
    /\ visited = {A, B}
    /\ \E c \in hist.appended : c.log = "error" /\ c.retryable /\ c.id = A

\* the statement for every identity and every message
C15_ReplayEveryInput == pc \in {"ledger", "loaded"} => ReplayExact

(* C16: crash consistency of the done log.  At every state, between runs   *)
(* included, every identity in the done log has its artifact completely    *)
(* written; and an identity whose processing a crash interrupted before    *)
(* its done append is not in the done set of the next run and is taken for *)
(* fetching when that run pops it.                                         *)
ArtifactComplete(id) ==
    \E a \in artifacts : a.id = id /\ a.stem = Stem(variant, id) /\ a.complete

C16_CrashConsistency ==
    /\ \A i \in DOMAIN doneFile : ArtifactComplete(doneFile[i])
    /\ (InRun /\ hist.interrupted # <<>>
            /\ hist.interrupted \notin Range(DoneAtStart)) =>
          /\ hist.interrupted \notin done
          /\ (pc = "loop" /\ LoopCond /\ Head(queue).id = hist.interrupted
                /\ hist.interrupted \notin AttemptedIds
                /\ ~HasPermanentEntry(ErrAtStart, hist.interrupted))
               => hist.interrupted \notin visited

\* the statement holds where no identity carries surrounding whitespace
C16_HoldsForCleanIdentities ==
    (variant = "wiki" \/ seeds = <<A, B>>) => C16_CrashConsistency

(* C17: missing content is a permanent error (wiki).  An identity whose    *)
(* API answer holds no page for it is not added to the done log, and when  *)
(* its iteration reaches the delay the error log holds an entry for it     *)
(* with retryable = 0.                                                     *)
C17_MissingIsPermanent ==
    (variant = "wiki" /\ InRun /\ hist.missing) =>
        /\ cur.id \notin Range(DoneThisRun)
        /\ pc = "sleep" => HasPermanentEntry(ErrThisRun, cur.id)

(* C18: permanent exclusion across runs (web).  A URL that the error log   *)
(* holds, when a run starts, as policy-denied or as failed with status 404 *)
(* is in the visited set throughout that run and no fetch is issued for    *)
(* it.                                                                     *)
PermanentWebLine(line) ==
    /\ Len(SplitTab(line)) >= 2
    /\ SplitTab(line)[2] \in {<<"robots_disallow">>, <<"404", "Client Error">>}

C18_PermanentExclusion ==
    (variant = "web" /\ InRun) =>
        \A i \in DOMAIN ErrAtStart :
            PermanentWebLine(ErrAtStart[i]) =>
                /\ SplitTab(ErrAtStart[i])[1] \in visited
                /\ SplitTab(ErrAtStart[i])[1] \notin Range(hist.fetched)

(* C19: at-most-once ledger entries (wiki).  Over all runs on the same     *)
(* ledger files, no identity is in the done log twice, none has two error  *)
(* entries with retryable = 0, and none has both a done entry and an error *)
(* entry with retryable = 0.                                               *)
PermanentEntries(id) ==
    {i \in DOMAIN errFile : LineAbout(errFile[i], id) /\ MarkedNonRetryable(errFile[i])}

C19_AtMostOnceEntries ==
    variant = "wiki" =>
        /\ NoDup(doneFile)
        /\ \A id \in Universe :
              /\ Cardinality(PermanentEntries(id)) <= 1
              /\ ~(id \in Range(doneFile) /\ PermanentEntries(id) # {})

\* a later run has ended on ledgers that hold A as done and B as permanently
\* failed, and has added nothing
C19_Witness ==
    /\ variant = "wiki"
    /\ pc = "ended"
    /\ hist.doneStart = 1
    /\ hist.errStart = 1
    /\ doneFile = <<A>>
    /\ Len(errFile) = 1
    /\ PermanentEntries(B) = {1}
    /\ hist.attempts = <<>>

(* C20: identity normalization.  Identities that differ only in letter     *)
(* case, trailing fragment or surrounding whitespace are one identity: a   *)
(* run fetches at most one of them, and none that is the same identity as  *)
(* an entry of the done log the run started with.                          *)
CutFragment(x) ==
    IF \E i \in DOMAIN x : x[i] = "#"
    THEN SubSeq(x, 1, (CHOOSE i \in DOMAIN x :
                          x[i] = "#" /\ \A m \in 1..(i - 1) : x[m] # "#") - 1)
    ELSE x

SameIdentity(x, y) ==
    Lower(Strip(CutFragment(x))) = Lower(Strip(CutFragment(y)))

C20_IdentityNormalization ==
    InRun =>
        /\ \A i, j \in DOMAIN hist.fetched :
              SameIdentity(hist.fetched[i], hist.fetched[j]) => i = j
        /\ \A i \in DOMAIN hist.fetched, k \in DOMAIN DoneAtStart :
              ~SameIdentity(hist.fetched[i], DoneAtStart[k])

\* what the code does normalize: the fragment of a discovered link is cut
C20_FragmentsCut ==
    InRun => \A i \in DOMAIN queue : "#" \notin Range(queue[i].id)

(* C21: manifest content (wiki).  When a run has ended, the manifest lists *)
(* exactly the identities that the run fetched, saved as artifacts and     *)
(* appended to the done log.                                               *)
PersistedThisRun == Range(hist.saved) \cap Range(DoneThisRun)

C21_ManifestContent ==
    (variant = "wiki" /\ pc = "ended") => Range(manifest) = PersistedThisRun

\* what the manifest does list: the titles the run fetched, in fetch order
C21_ManifestListsFetched ==
    (variant = "wiki" /\ pc = "ended") =>
        /\ PersistedThisRun \subseteq Range(manifest)
        /\ Range(manifest) \subseteq Range(hist.fetched)

(* C22: artifact isolation.  Distinct identities have distinct file stems, *)
(* so every identity that was saved still has its artifact in the output   *)
(* directory, whatever was saved after it.                                 *)
C22_ArtifactIsolation ==
    pc = "stem" =>
        /\ \A x, y \in Range(hist.saved) :
              x # y => Stem(variant, x) # Stem(variant, y)
        /\ \A id \in Range(hist.saved) : \E a \in artifacts : a.id = id

\* what holds: one file per stem, and it is the artifact of the identity
\* saved last under that stem
C22_LastSavedWins ==
    pc = "stem" =>
        /\ \A a, b \in artifacts : a.stem = b.stem => a = b
        /\ hist.saved # <<>> =>
              \E a \in artifacts : a.id = hist.saved[Len(hist.saved)]

(* C23: the stop condition counts this run's successes.  A run that left   *)
(* its loop with a non-empty frontier has fetched and persisted max_pages  *)
(* identities in that run; done entries of earlier runs, failures, denials *)
(* and dropped entries do not count.                                       *)
C23_StopCondition ==
    pc = "ended" =>
        \/ queue = <<>>
        \/ Cardinality(PersistedThisRun) >= max_pages

\* the web crawler counts the done appends of the run, and only those
C23_WebCountsPersisted ==
    (variant = "web" /\ InRun) =>
        /\ results = Len(DoneThisRun)
        /\ pc = "ended" => (queue = <<>> \/ Len(DoneThisRun) >= max_pages)

(* C24: frontier growth gate.  Every frontier entry other than a seed      *)
(* passes the relevance filter and sits one level below its parent, an     *)
(* identity the run fetched and persisted at a depth below max_depth; the  *)
(* frontier grows only while the links of such an identity are expanded,   *)
(* by entries that are not in the visited set, and in no other step.       *)
ParentOf(e) == e.path[Len(e.path)]

GrowthGateOk(e) ==
    /\ is_footballish(e.id)
    /\ Len(e.path) = e.depth
    /\ ParentOf(e) \in Range(hist.fetched) \cap Range(DoneThisRun)
    /\ ParentOf(e) \notin hist.denied
    /\ \E k \in DOMAIN hist.attempts :
          /\ hist.attempts[k].id = ParentOf(e)
          /\ hist.attempts[k].depth = e.depth - 1
          /\ hist.attempts[k].depth < max_depth

C24_FrontierGrowthGate ==
    /\ [](InRun => \A i \in DOMAIN queue :
                      queue[i].depth > 0 => GrowthGateOk(queue[i]))
    /\ [][(pc \notin {"idle", "ended", "raised"} /\ pc' # "idle") =>
            \/ queue' = queue
            \/ (queue # <<>> /\ queue' = Tail(queue))
            \/ /\ pc = "expand"
               /\ cur.depth < max_depth
               /\ hist.failure = NoFailure
               /\ cur.id \in Range(hist.fetched) \cap Range(DoneThisRun)
               /\ Len(queue') > Len(queue)
               /\ SubSeq(queue', 1, Len(queue)) = queue
               /\ \A i \in (Len(queue) + 1)..Len(queue') :
                     /\ queue'[i].id \notin visited
                     /\ is_footballish(queue'[i].id)
                     /\ queue'[i].depth = cur.depth + 1]_vars

\* the links of a seed of the web crawler, among them a mail address, a
\* page that is not about football and two links to one page, have been
\* expanded: the frontier has grown by that page, twice
C24_Witness ==
    /\ variant = "web"
    /\ pc = "sleep"
    /\ cur.depth = 0
    /\ ~hist.linkFail
    /\ Len(queue) >= 2
    /\ \A i \in (Len(queue) - 1)..Len(queue) :
          queue[i] = [id |-> C1, depth |-> 1, path |-> <<cur.id>>]

(* C25: silent drop.  When the identity at the head of the frontier is in  *)
(* the visited set, the step the run takes removes that entry and changes  *)
(* nothing else: the run is back at the head of its loop with the same     *)
(* files, visited set, success count and robots cache, and without a       *)
(* policy check, a fetch or a delay.                                       *)
C25_SilentDrop ==
    [][(pc = "loop" /\ LoopCond /\ Head(queue).id \in visited /\ pc' # "idle") =>
          /\ queue' = Tail(queue)
          /\ pc' = "loop"
          /\ UNCHANGED <<config, files, visited, done, results, cur, rp_cache,
                         gate, hist>>]_vars

\* a run that started on ledgers holding its first seed has dropped it
C25_Witness ==
    /\ pc = "loop"
    /\ seeds[1] \in visited
    /\ hist.doneStart + hist.errStart > 0
    /\ Len(queue) = Len(seeds) - 1
    /\ hist.attempts = <<>>
    /\ hist.slept = 0

(* C26: no duplicate frontier entries.  At every state of a run the        *)
(* frontier holds at most one entry per identity.                          *)
FrontierIds == [i \in DOMAIN queue |-> queue[i].id]

C26_NoDuplicateFrontier == InRun => NoDup(FrontierIds)

\* what the visited test at the append does give: no entry for an identity
\* that was already popped and processed in this run
C26_NoProcessedInFrontier ==
    [][(pc = "expand" /\ pc' = "sleep") =>
          \A i \in (Len(queue) + 1)..Len(queue') :
              queue'[i].id \notin AttemptedIds \cup done]_vars

(* C27: termination.  A run that nothing kills, every network call of      *)
(* which returns or times out, eventually leaves its loop and ends,        *)
(* whatever the upstream answers.                                          *)
RunOver == pc \in {"ended", "raised"}

C27_Termination == <>RunOver

\* what holds: the run ends unless the upstream answers the link-list
\* requests of one title with 403 or 429 for ever
C27_EndsUnlessThrottledForEver == <>RunOver \/ []<>(pc = "backoff")

(* C28: request-rate bound over all requests.  No two network requests of  *)
(* a run are issued back to back: at most one request has been issued      *)
(* since the last delay.                                                   *)
C28_RequestRate == InRun => hist.requests <= 1

\* what holds: the requests for one frontier entry are followed by a delay
\* before the first request for the next entry
C28_DelayBetweenEntries == pc \in {"loop", "ended"} => hist.requests = 0

(* C29: frontier depth ordering.  At every state of a run the depths of    *)
(* the frontier entries do not decrease from head to tail, and head and    *)
(* tail differ by at most 1; an identity that was taken from the frontier  *)
(* was taken at a depth no larger than that of any entry still waiting for *)
(* it, and the entries are taken in order of depth.                        *)
C29_DepthOrdering ==
    InRun =>
        /\ \A i, j \in DOMAIN queue : i <= j => queue[i].depth <= queue[j].depth
        /\ queue # <<>> => queue[Len(queue)].depth - queue[1].depth <= 1
        /\ \A i, j \in DOMAIN hist.attempts :
              i <= j => hist.attempts[i].depth <= hist.attempts[j].depth
        /\ \A k \in DOMAIN hist.attempts, i \in DOMAIN queue :
              hist.attempts[k].depth <= queue[i].depth
        /\ hist.attempts # <<>> =>
              \A i \in DOMAIN queue :
                  queue[i].depth <= hist.attempts[Len(hist.attempts)].depth + 1

\* an identity appended at depth 1 and again at depth 2 has been taken at
\* depth 1, and its entry of depth 2 is still waiting
C29_Witness ==
    /\ InRun
    /\ \E k \in DOMAIN hist.attempts, i \in DOMAIN queue :
          /\ hist.attempts[k].id = queue[i].id
          /\ hist.attempts[k].depth = 1
          /\ queue[i].depth = 2

(* C30: the frontier is not persisted.  A run that starts when every seed  *)
(* is in the done log or has a permanent entry in the error log issues no  *)
(* fetch and no robots request, appends nothing to either ledger, and ends *)
(* with an empty frontier.                                                 *)
SeedsInLedgers ==
    \A i \in DOMAIN seeds :
        \/ seeds[i] \in Range(DoneAtStart)
        \/ variant = "wiki" /\ HasPermanentEntry(ErrAtStart, seeds[i])

NothingDone ==
    /\ hist.attempts = <<>>
    /\ hist.fetched = <<>>
    /\ hist.robotsReq = <<>>
    /\ DoneThisRun = <<>>
    /\ ErrThisRun = <<>>

C30_FrontierNotPersisted ==
    (InRun /\ SeedsInLedgers) =>
        /\ pc \in {"loop", "ended"}
        /\ NothingDone
        /\ pc = "ended" => queue = <<>>

\* what holds: when every seed is in the visited set the run starts with,
\* the run does nothing but drop entries, and it ends with an empty frontier
\* unless the loaded done set already fills the page cap
SeedsVisitedAtStart ==
    \A i \in DOMAIN seeds :
        seeds[i] \in StartVisited(variant, LoadDone(DoneAtStart),
                                  load_permanent_errors(ErrAtStart))

C30_VisitedSeedsOnlyDrop ==
    /\ []((InRun /\ SeedsVisitedAtStart) =>
            /\ pc \in {"loop", "ended"}
            /\ NothingDone
            /\ pc = "ended" =>
                  \/ queue = <<>>
                  \/ max_pages = 0
                  \/ variant = "wiki"
                        /\ Cardinality(LoadDone(DoneAtStart)) >= max_pages)
    /\ [][(InRun /\ SeedsVisitedAtStart /\ pc = "loop" /\ pc' # "idle") =>
            (pc' = "ended" \/ Len(queue') < Len(queue))]_vars

====
